---- MODULE Spec2Model ----
(***************************************************************************)
(* The OTP login and appliance ledger of energy-calculator's backend.      *)
(*                                                                         *)
(* The repository holds two variants of the server, src/backend/server.js  *)
(* and src/unnamed/part_000.  Their OTP handlers are the same code; where  *)
(* the variants differ (the schemas, authMiddleware, the ledger's          *)
(* formulas) the variable `variant` says which one is deployed.            *)
(*                                                                         *)
(* The store (MongoDB through mongoose) is taken to be available: every    *)
(* store call returns, and one store call is one atomic step.  A handler   *)
(* that awaits the store twice is therefore two or more steps, and other   *)
(* handlers and the clock may move between them.                           *)
(*                                                                         *)
(* The rate limiter of server.js (60 requests a minute unless configured)  *)
(* is not reached by the few requests of a behaviour.                      *)
(*                                                                         *)
(* Specifications: Spec and SpecSeq are the OTP routes (interleaved, and   *)
(* one request at a time); SpecMail is the OTP routes of either file with  *)
(* a mail in two letter cases; SpecSession is login followed by the use of *)
(* the issued tokens; SpecLedger is the appliance routes with every kind   *)
(* of Authorization header; SpecCreate is POST /api/appliances over all    *)
(* its request bodies; SpecUpdate and SpecHandOver are PUT and DELETE on   *)
(* one document with two handlers in flight.                               *)
(***************************************************************************)
EXTENDS Integers, Sequences, FiniteSets, TLC

----------------------------------------------------------------------------
(* Bounds of the model. *)

\* Request handlers that may be in flight at once.
NumProcs == 2
\* The clock visits k * OtpTtl + j for k in 0..MaxEpochs, j in 0..MaxJitter.
MaxEpochs == 1
MaxJitter == 1
\* Math.random() is drawn from { k / RandomGrid : k in 0..RandomGrid-1 }.
RandomGrid == 2
\* OTPs issued in one behaviour (the issuance counter is a history variable).
MaxOtpRequests == 2
\* Appliance documents created in one behaviour.
MaxAppliances == 2
\* Update and delete handlers of the ledger between their two store calls at once.
MaxInFlight == 1

----------------------------------------------------------------------------
(* Values. *)

Procs == 1 .. NumProcs

Variants == {"server.js", "part_000"}

\* body("mail").isEmail() accepts the first two and rejects the third.
ValidMails == {"a@x.com", "b@x.com"}
InvalidMail == "not-an-email"
Mails == ValidMails \cup {InvalidMail}

\* The first valid mail in another letter case, a valid email too.
UpperMail == "A@X.COM"

isEmail(mail) == mail \in ValidMails \cup { UpperMail }

\* String.prototype.toLowerCase on the mails of the model.
toLowerCase(mail) == IF mail = UpperMail THEN "a@x.com" ELSE mail

\* body("name").isLength({ min: 1 }) rejects the empty name.  The first request
\* for a mail signs as Alice and a repeated one as Bob, so that an overwritten
\* name differs from the one stored before.
FirstName == "Alice"
LaterName == "Bob"

\* A string of digits is a sequence of digits; the empty sequence is both the
\* empty string and an unset (undefined) field: `!user.otp` is true of both.
Unset == << >>

\* An unset Date field.
NoDate == -1

\* 10 * 60 * 1000 milliseconds.
OtpTtl == 10 * 60 * 1000

\* expiresIn "7d", in seconds, as jsonwebtoken counts.
JwtTtl == 7 * 24 * 60 * 60

\* Number.prototype.toString for a natural number: its decimal digits.
RECURSIVE toString(_)
toString(n) == IF n < 10 THEN << n >> ELSE Append(toString(n \div 10), n % 10)

\* The OTP without the offset of 1000.
GenerateOtp_NoOffset(k) == toString((k * 9000) \div RandomGrid)

\* Math.floor(1000 + Math.random() * 9000).toString() with Math.random() = k / RandomGrid.
GenerateOtp(k) == toString((1000 * RandomGrid + k * 9000) \div RandomGrid)

GeneratedOtps == { GenerateOtp(k) : k \in 0 .. RandomGrid - 1 }

\* What a client may send as otp: the codes the server can generate (each a
\* wrong guess while another one is stored) and a string shorter than 3
\* characters.
OtpCandidates == GeneratedOtps \cup { << 1, 2 >> }

\* The clock's values, in milliseconds.
OtpTimes == { k * OtpTtl + j : k \in 0 .. MaxEpochs, j \in 0 .. MaxJitter }

----------------------------------------------------------------------------
(* State. *)

VARIABLES
    variant,     \* which server file is deployed
    now,         \* Date.now(), in milliseconds
    users,       \* the User collection: mail -> document
    otpSeq,      \* history: the number of OTPs issued so far
    credited,    \* history: issuance number -> verify-otp requests answered 200 on it
    issued,      \* history: the tokens verify-otp has handed out
    appliances,  \* the Appliance collection: _id -> document
    applianceSeq,\* the number of appliance documents created so far (the last _id)
    pc,          \* each handler's position
    req,         \* each handler's request
    user,        \* each handler's `user` (verify-otp: the document findOne returned)
    checkedAt,   \* history: the time at which the handler evaluated its OTP check
    appliance,   \* each handler's `appliance` (the document findById returned)
    out          \* the response the last step sent, NoResponse when it sent none

vars ==
    << variant, now, users, otpSeq, credited, issued, appliances, applianceSeq, pc, req, user,
       checkedAt, appliance, out >>

\* What the issuer's handlers never touch, and what the ledger's never touch.
ledgerVars == << appliances, applianceSeq, appliance >>
issuerVars == << users, otpSeq, credited, issued, user, checkedAt >>

\* findOne's null.  A document's id is its ObjectId; ids are handed out from 1.
\* gen, code and prev are history fields the program does not have: the
\* issuance number of the OTP stored last, that OTP (kept when otp is cleared)
\* and the OTP that issuance overwrote.
NullUser ==
    [ id |-> 0, name |-> "", mail |-> "", otp |-> Unset, otpExpires |-> NoDate,
      gen |-> 0, code |-> Unset, prev |-> Unset ]

NoToken == [ userId |-> 0, mail |-> "", iat |-> 0, exp |-> 0, sig |-> "none" ]

NoRequest == [ mail |-> "", otp |-> Unset ]

\* An Authorization header: its scheme (the text before the first space, "" when
\* the header is absent) and the token after it.
NoHeader == [ scheme |-> "", token |-> NoToken ]

\* req.user before authMiddleware has set it.
NoPayload == [ userId |-> 0, mail |-> "" ]

\* findById's null.
NullAppliance == [ id |-> 0 ]

\* A response: status, message, token, userId, name and mail are what the client
\* receives.  The other fields are history: the route, the request's mail and
\* otp (send-otp: the code handed to sendOtpEmail), the document the handler
\* worked on (verify-otp: the one findOne returned; send-otp: the one it
\* stored) and the time of its OTP check.  For the ledger's routes, records is
\* the body (the documents of a list, the document of a create or an update),
\* and header, authAt, actor, reqId and reqBody are history: the Authorization
\* header of the request, the time authMiddleware ran, the req.user it set,
\* req.params.id and req.body.
NoResponse ==
    [ op |-> "none", status |-> 0, message |-> "", token |-> NoToken, userId |-> 0,
      name |-> "", mail |-> "", reqMail |-> "", reqOtp |-> Unset,
      snap |-> NullUser, checkedAt |-> NoDate,
      records |-> << >>, header |-> NoHeader, authAt |-> NoDate, actor |-> NoPayload,
      reqId |-> 0, reqBody |-> << >> ]

\* The setters of userSchema's mail path, which mongoose runs on the filter of
\* a query and on the fields of an update: server.js declares lowercase: true
\* (and trim, which changes no valid email), part_000 declares no setter.
mailSetter(mail) == IF variant = "server.js" THEN toLowerCase(mail) ELSE mail

\* findOne with the filter lost: any document is found.
findOne_AnyUser(mail) ==
    IF mail \in DOMAIN users THEN users[mail]
    ELSE IF DOMAIN users # {} THEN users[CHOOSE m \in DOMAIN users : TRUE]
    ELSE NullUser

\* User.findOne({ mail }).
findOne(mail) == IF mail \in DOMAIN users THEN users[mail] ELSE NullUser

\* The token signed for one day.
signToken_OneDay(payload) ==
    [ userId |-> payload.userId, mail |-> payload.mail,
      iat |-> now \div 1000, exp |-> (now \div 1000) + 24 * 60 * 60, sig |-> "server" ]

\* jwt.sign(payload, JWT_SECRET, { expiresIn: "7d" }): iat and exp are in seconds.
signToken(payload) ==
    [ userId |-> payload.userId, mail |-> payload.mail,
      iat |-> now \div 1000, exp |-> (now \div 1000) + JwtTtl, sig |-> "server" ]

Response(op, status, message) ==
    [ NoResponse EXCEPT !.op = op, !.status = status, !.message = message ]

Init ==
    /\ variant = "server.js"
    /\ now = 0
    /\ users = << >>
    /\ otpSeq = 0
    /\ credited = << >>
    /\ issued = {}
    /\ appliances = << >>
    /\ applianceSeq = 0
    /\ pc = [ p \in Procs |-> "idle" ]
    /\ req = [ p \in Procs |-> NoRequest ]
    /\ user = [ p \in Procs |-> NullUser ]
    /\ checkedAt = [ p \in Procs |-> NoDate ]
    /\ appliance = [ p \in Procs |-> NullAppliance ]
    /\ out = NoResponse

AllIdle == \A p \in Procs : pc[p] = "idle"

----------------------------------------------------------------------------
(* The clock. *)

Tick(times) ==
    /\ \E t \in times : t > now /\ now' = t
    /\ out' = NoResponse
    /\ UNCHANGED << variant, users, otpSeq, credited, issued, ledgerVars, pc, req, user, checkedAt >>

----------------------------------------------------------------------------
(* POST /api/send-otp. *)

\* The upsert leaving a pending OTP and its expiry in place.
Upsert_KeepsPending(mail, name, otp, otpExpires) ==
    LET old == IF mail \in DOMAIN users THEN users[mail] ELSE NullUser IN
    [ id |-> IF old.id = 0 THEN Cardinality(DOMAIN users) + 1 ELSE old.id,
      name |-> name, mail |-> mail,
      otp |-> IF old.otp = Unset THEN otp ELSE old.otp,
      otpExpires |-> IF old.otp = Unset THEN otpExpires ELSE old.otpExpires,
      gen |-> otpSeq + 1, code |-> IF old.otp = Unset THEN otp ELSE old.otp, prev |-> old.otp ]

\* The document findOneAndUpdate({ mail }, { name, mail, otp, otpExpires },
\* { upsert: true }) leaves in the collection: an existing document keeps its
\* _id, a new one gets a fresh one.
Upsert(mail, name, otp, otpExpires) ==
    LET old == findOne(mail) IN
    [ id |-> IF old.id = 0 THEN Cardinality(DOMAIN users) + 1 ELSE old.id,
      name |-> name, mail |-> mail, otp |-> otp, otpExpires |-> otpExpires,
      gen |-> otpSeq + 1, code |-> otp, prev |-> old.otp ]

\* send-otp undoing its upsert when the mail is not sent.
SendOtp_RollsBack(mail, name, k, mailed) ==
    /\ otpSeq < MaxOtpRequests
    /\ isEmail(mail) /\ Len(name) >= 1
    /\ LET otp == GenerateOtp(k)
           doc == [ id |-> IF mail \in DOMAIN users THEN users[mail].id ELSE Cardinality(DOMAIN users) + 1,
                    name |-> name, mail |-> mail, otp |-> otp, otpExpires |-> now + OtpTtl,
                    gen |-> otpSeq + 1, code |-> otp,
                    prev |-> IF mail \in DOMAIN users THEN users[mail].otp ELSE Unset ]
       IN  /\ users' = IF mailed
                          THEN [ m \in DOMAIN users \cup {mail} |-> IF m = mail THEN doc ELSE users[m] ]
                          ELSE users
           /\ otpSeq' = otpSeq + 1
           /\ credited' = [ g \in 1 .. otpSeq + 1 |-> IF g = otpSeq + 1 THEN 0 ELSE credited[g] ]
           /\ out' = [ NoResponse EXCEPT !.op = "send-otp", !.status = IF mailed THEN 200 ELSE 500,
                                         !.message = IF mailed THEN "OTP sent successfully" ELSE "Failed to send OTP",
                                         !.reqMail = mail, !.reqOtp = otp, !.snap = doc ]
    /\ UNCHANGED << variant, now, issued, ledgerVars, pc, req, user, checkedAt >>

\* The handler: validation, the OTP and its expiry, the upsert, then the mail.
\* mailed is whether transporter.sendMail resolved.
SendOtp(mail, name, k, mailed) ==
    /\ otpSeq < MaxOtpRequests
    /\ IF ~isEmail(mail) THEN
           /\ out' = [ Response("send-otp", 400, "Valid email required") EXCEPT !.reqMail = mail ]
           /\ UNCHANGED << users, otpSeq, credited >>
       ELSE IF Len(name) < 1 THEN
           /\ out' = Response("send-otp", 400, "Name required")
           /\ UNCHANGED << users, otpSeq, credited >>
       ELSE
           LET otp == GenerateOtp(k)
               otpExpires == now + OtpTtl
               doc == Upsert(mailSetter(mail), name, otp, otpExpires)
           IN  /\ users' = [ m \in DOMAIN users \cup {doc.mail} |-> IF m = doc.mail THEN doc ELSE users[m] ]
               /\ otpSeq' = otpSeq + 1
               /\ credited' = [ g \in 1 .. otpSeq + 1 |-> IF g = otpSeq + 1 THEN 0 ELSE credited[g] ]
               /\ out' = [ ( IF mailed
                               THEN Response("send-otp", 200, "OTP sent successfully")
                               ELSE Response("send-otp", 500, "Failed to send OTP") )
                           EXCEPT !.reqMail = mail, !.reqOtp = otp, !.snap = doc ]
    /\ UNCHANGED << variant, now, issued, ledgerVars, pc, req, user, checkedAt >>

Names(mail) == { IF mail \in DOMAIN users THEN LaterName ELSE FirstName, "" }

RequestOtp ==
    \E mail \in Mails, k \in 0 .. RandomGrid - 1, mailed \in BOOLEAN :
        \E name \in Names(mail) : SendOtp(mail, name, k, mailed)

----------------------------------------------------------------------------
(* POST /api/verify-otp. *)

\* The test with the expiry instant itself refused.
OtpRefused_AtExpiry(doc, otp, t) ==
    \/ doc.otp = Unset
    \/ doc.otp # otp
    \/ (doc.otpExpires # NoDate /\ t >= doc.otpExpires)

\* The test without the comparison of the codes.
OtpRefused_AnyCode(doc, otp, t) ==
    \/ doc.otp = Unset
    \/ (doc.otpExpires # NoDate /\ t > doc.otpExpires)

\* The handler's test of the OTP, at time t: true when the request is refused.
OtpRefused(doc, otp, t) ==
    \/ doc.otp = Unset
    \/ doc.otp # otp
    \/ (doc.otpExpires # NoDate /\ t > doc.otpExpires)

\* The request arrives: validation, then `await User.findOne({ mail })`.  Handler
\* slots are interchangeable, so a request takes the lowest idle one.
VerifyFind(p, mail, otp) ==
    /\ pc[p] = "idle"
    /\ \A q \in Procs : q < p => pc[q] # "idle"
    /\ IF ~isEmail(mail) THEN
           /\ out' = [ Response("verify-otp", 400, "Invalid value") EXCEPT !.reqMail = mail ]
           /\ UNCHANGED << pc, req, user >>
       ELSE IF Len(otp) < 3 THEN
           /\ out' = [ Response("verify-otp", 400, "Invalid OTP") EXCEPT !.reqMail = mail, !.reqOtp = otp ]
           /\ UNCHANGED << pc, req, user >>
       ELSE
           /\ pc' = [ pc EXCEPT ![p] = "found" ]
           /\ req' = [ req EXCEPT ![p] = [ mail |-> mail, otp |-> otp ] ]
           /\ user' = [ user EXCEPT ![p] = findOne(mailSetter(mail)) ]
           /\ out' = NoResponse
    /\ UNCHANGED << variant, now, users, otpSeq, credited, issued, ledgerVars, checkedAt >>

\* The handler with a refused attempt consuming the pending OTP.
VerifyCheck_ConsumesOnFailure(p) ==
    /\ pc[p] = "found"
    /\ IF user[p].id = 0 THEN
           /\ out' = [ Response("verify-otp", 404, "User not found")
                         EXCEPT !.reqMail = req[p].mail, !.reqOtp = req[p].otp ]
           /\ pc' = [ pc EXCEPT ![p] = "idle" ]
           /\ req' = [ req EXCEPT ![p] = NoRequest ]
           /\ user' = [ user EXCEPT ![p] = NullUser ]
           /\ UNCHANGED << checkedAt, users >>
       ELSE IF OtpRefused(user[p], req[p].otp, now) THEN
           /\ out' = [ Response("verify-otp", 400, "Invalid or expired OTP")
                         EXCEPT !.reqMail = req[p].mail, !.reqOtp = req[p].otp,
                                !.snap = user[p], !.checkedAt = now ]
           /\ users' = [ users EXCEPT ![user[p].mail] = [ @ EXCEPT !.otp = Unset, !.otpExpires = NoDate ] ]
           /\ pc' = [ pc EXCEPT ![p] = "idle" ]
           /\ req' = [ req EXCEPT ![p] = NoRequest ]
           /\ user' = [ user EXCEPT ![p] = NullUser ]
           /\ UNCHANGED checkedAt
       ELSE
           /\ pc' = [ pc EXCEPT ![p] = "saving" ]
           /\ checkedAt' = [ checkedAt EXCEPT ![p] = now ]
           /\ out' = NoResponse
           /\ UNCHANGED << req, user, users >>
    /\ UNCHANGED << variant, now, otpSeq, credited, issued, ledgerVars >>

\* findOne has resolved: the 404, the OTP test against `new Date()`, and, when
\* it passes, `user.otp = undefined; user.otpExpires = undefined` before save().
VerifyCheck(p) ==
    /\ pc[p] = "found"
    /\ IF user[p].id = 0 THEN
           /\ out' = [ Response("verify-otp", 404, "User not found")
                         EXCEPT !.reqMail = req[p].mail, !.reqOtp = req[p].otp ]
           /\ pc' = [ pc EXCEPT ![p] = "idle" ]
           /\ req' = [ req EXCEPT ![p] = NoRequest ]
           /\ user' = [ user EXCEPT ![p] = NullUser ]
           /\ UNCHANGED checkedAt
       ELSE IF OtpRefused(user[p], req[p].otp, now) THEN
           /\ out' = [ Response("verify-otp", 400, "Invalid or expired OTP")
                         EXCEPT !.reqMail = req[p].mail, !.reqOtp = req[p].otp,
                                !.snap = user[p], !.checkedAt = now ]
           /\ pc' = [ pc EXCEPT ![p] = "idle" ]
           /\ req' = [ req EXCEPT ![p] = NoRequest ]
           /\ user' = [ user EXCEPT ![p] = NullUser ]
           /\ UNCHANGED checkedAt
       ELSE
           /\ pc' = [ pc EXCEPT ![p] = "saving" ]
           /\ checkedAt' = [ checkedAt EXCEPT ![p] = now ]
           /\ out' = NoResponse
           /\ UNCHANGED << req, user >>
    /\ UNCHANGED << variant, now, users, otpSeq, credited, issued, ledgerVars >>

\* save() with only otpExpires marked modified.
ClearOtp_KeepsOtp(doc) == [ doc EXCEPT !.otpExpires = NoDate ]

\* save() with only otp marked modified.
ClearOtp_KeepsExpiry(doc) == [ doc EXCEPT !.otp = Unset ]

\* What user.save() writes: the two modified paths are unset on the document
\* with the handler's _id, whatever that document holds by now.
ClearOtp(doc) == [ doc EXCEPT !.otp = Unset, !.otpExpires = NoDate ]

\* `await user.save()` reaches the store.
VerifySave(p) ==
    /\ pc[p] = "saving"
    /\ users' = [ users EXCEPT ![user[p].mail] = ClearOtp(@) ]
    /\ pc' = [ pc EXCEPT ![p] = "saved" ]
    /\ out' = NoResponse
    /\ UNCHANGED << variant, now, otpSeq, credited, issued, ledgerVars, req, user, checkedAt >>

\* save() has resolved: the token is signed and the 200 is sent.
VerifyRespond(p) ==
    /\ pc[p] = "saved"
    /\ out' = [ Response("verify-otp", 200, "")
                  EXCEPT !.token = signToken([ userId |-> user[p].id, mail |-> user[p].mail ]),
                         !.userId = user[p].id, !.name = user[p].name, !.mail = user[p].mail,
                         !.reqMail = req[p].mail, !.reqOtp = req[p].otp,
                         !.snap = user[p], !.checkedAt = checkedAt[p] ]
    /\ credited' = [ credited EXCEPT ![user[p].gen] = @ + 1 ]
    /\ issued' = issued \cup { signToken([ userId |-> user[p].id, mail |-> user[p].mail ]) }
    /\ pc' = [ pc EXCEPT ![p] = "idle" ]
    /\ req' = [ req EXCEPT ![p] = NoRequest ]
    /\ user' = [ user EXCEPT ![p] = NullUser ]
    /\ checkedAt' = [ checkedAt EXCEPT ![p] = NoDate ]
    /\ UNCHANGED << variant, now, users, otpSeq, ledgerVars >>

VerifyOtpArrives == \E p \in Procs, mail \in Mails, otp \in OtpCandidates : VerifyFind(p, mail, otp)

VerifyOtpStep == \E p \in Procs : VerifyCheck(p) \/ VerifySave(p) \/ VerifyRespond(p)

----------------------------------------------------------------------------
(* The identity and session issuer: requests interleave freely. *)

Next ==
    \/ Tick(OtpTimes)
    \/ RequestOtp
    \/ VerifyOtpArrives
    \/ VerifyOtpStep

Spec == Init /\ [][Next]_vars

(* The issuer serving one request at a time: a request arrives only when no *)
(* handler is in flight.                                                    *)
NextSeq ==
    \/ Tick(OtpTimes)
    \/ (AllIdle /\ RequestOtp)
    \/ (AllIdle /\ VerifyOtpArrives)
    \/ VerifyOtpStep

SpecSeq == Init /\ [][NextSeq]_vars

(* The OTP routes of either server file, with the first mail sent in two   *)
(* letter cases; the clock stands still.                                    *)
CasedMails == { "a@x.com", UpperMail }

InitMail ==
    /\ variant \in Variants
    /\ now = 0
    /\ users = << >>
    /\ otpSeq = 0
    /\ credited = << >>
    /\ issued = {}
    /\ appliances = << >>
    /\ applianceSeq = 0
    /\ pc = [ p \in Procs |-> "idle" ]
    /\ req = [ p \in Procs |-> NoRequest ]
    /\ user = [ p \in Procs |-> NullUser ]
    /\ checkedAt = [ p \in Procs |-> NoDate ]
    /\ appliance = [ p \in Procs |-> NullAppliance ]
    /\ out = NoResponse

RequestOtpCased ==
    \E mail \in CasedMails, k \in 0 .. RandomGrid - 1, mailed \in BOOLEAN :
        \E name \in Names(mailSetter(mail)) : SendOtp(mail, name, k, mailed)

VerifyOtpCased ==
    \E p \in Procs, mail \in CasedMails, otp \in OtpCandidates : VerifyFind(p, mail, otp)

NextMail ==
    \/ RequestOtpCased
    \/ VerifyOtpCased
    \/ VerifyOtpStep

SpecMail == InitMail /\ [][NextMail]_vars

----------------------------------------------------------------------------
(* Properties of the issuer. *)

InvalidOtp(r) == r.status = 400 /\ r.message = "Invalid or expired OTP"

NotFound(r) == r.status = 404 /\ r.message = "User not found"

\* A verify-otp response of a handler that found a document.
VerifyAnswer(r) == r.op = "verify-otp" /\ r.snap.id # 0

\* The request's otp is the one the handler read, which was pending.
Matched(r) == r.snap.otp # Unset /\ r.reqOtp = r.snap.otp

\* C1: of the verify-otp requests that carry one issued OTP, at most one is
\* answered 200, however their store reads and writes interleave.
C1_AtMostOneSuccessPerOtp == \A g \in DOMAIN credited : credited[g] <= 1

\* C2: when requests are served one at a time, a verify-otp with the pending
\* code before its expiry is answered 200, no issued OTP is accepted twice,
\* an accepted OTP is gone from the store, and a verify-otp that finds it gone
\* is answered InvalidOtp.
C2_SequentialVerifyOnce ==
    /\ \A g \in DOMAIN credited : credited[g] <= 1
    /\ \A m \in DOMAIN users : credited[users[m].gen] >= 1 => users[m].otp = Unset
    /\ VerifyAnswer(out) =>
          /\ (Matched(out) /\ out.checkedAt <= out.snap.otpExpires) => out.status = 200
          /\ out.snap.otp = Unset => InvalidOtp(out)

\* A second verify-otp with an accepted code has been refused.
C2_Witness ==
    /\ VerifyAnswer(out) /\ InvalidOtp(out)
    /\ out.snap.otp = Unset /\ credited[out.snap.gen] = 1
    /\ out.reqOtp = out.snap.code

\* C3: a verify-otp with the correct code is answered InvalidOtp when the time
\* of its check is after the stored expiry, and 200 when it is at or before it.
C3_ExpiryIsStrict ==
    (VerifyAnswer(out) /\ Matched(out)) =>
        IF out.checkedAt > out.snap.otpExpires THEN InvalidOtp(out) ELSE out.status = 200

\* A correct code accepted at the expiry instant itself.
C3_Witness ==
    /\ VerifyAnswer(out) /\ Matched(out)
    /\ out.checkedAt = out.snap.otpExpires
    /\ out.status = 200

\* A correct code refused one millisecond after the expiry.
C3_WitnessExpired ==
    /\ VerifyAnswer(out) /\ Matched(out)
    /\ out.checkedAt = out.snap.otpExpires + 1
    /\ InvalidOtp(out)

\* C4 as stated: a verify-otp for an email without an identity record is
\* answered NotFound whatever otp it carries.
C4_Original ==
    (out.op = "verify-otp" /\ isEmail(out.reqMail) /\ out.reqMail \notin DOMAIN users)
        => NotFound(out)

\* C4 as amended: a verify-otp for an email without an identity record is
\* answered NotFound whenever its otp has at least 3 characters, is answered
\* 400 "Invalid OTP" when it is shorter, and creates no identity record.
C4_UnknownEmail ==
    [][ (out'.op = "verify-otp" /\ isEmail(out'.reqMail) /\ out'.reqMail \notin DOMAIN users)
          => /\ IF Len(out'.reqOtp) >= 3
                  THEN NotFound(out')
                  ELSE out'.status = 400 /\ out'.message = "Invalid OTP"
             /\ DOMAIN users' = DOMAIN users ]_vars

\* A NotFound for an unregistered email while another identity exists.
C4_Witness ==
    /\ out.op = "verify-otp" /\ NotFound(out)
    /\ out.reqMail \notin DOMAIN users
    /\ DOMAIN users # {}

\* C5: every identity record has otp and otpExpires both set or both unset.
C5_OtpAndExpiryTogether ==
    \A m \in DOMAIN users : (users[m].otp = Unset) <=> (users[m].otpExpires = NoDate)

\* One identity cleared by a verification while another has an OTP pending.
C5_Witness ==
    \E m1, m2 \in DOMAIN users :
        /\ users[m1].otp = Unset /\ users[m1].otpExpires = NoDate /\ credited[users[m1].gen] >= 1
        /\ users[m2].otp # Unset /\ users[m2].otpExpires # NoDate

\* C6 as stated: after a send-otp has overwritten a pending OTP, a verify-otp
\* with the overwritten code is answered InvalidOtp.
C6_Original ==
    (VerifyAnswer(out) /\ out.snap.prev # Unset /\ out.reqOtp = out.snap.prev)
        => InvalidOtp(out)

\* C6 as amended: a send-otp for an identity with a pending OTP stores the new
\* code and an expiry of its own, and a verify-otp that reads the record
\* afterwards is answered InvalidOtp for every code but the new one: for the
\* first code too, unless the second code is the same string.
C6_RequestOverwrites ==
    /\ (out.op = "send-otp" /\ out.status \in {200, 500} /\ out.snap.prev # Unset) =>
          /\ users[out.reqMail].otp = out.reqOtp
          /\ users[out.reqMail].otpExpires = now + OtpTtl
    /\ (VerifyAnswer(out) /\ out.snap.prev # Unset /\ out.reqOtp # out.snap.otp) => InvalidOtp(out)

\* The first code refused only because a different second code replaced it.
C6_Witness ==
    /\ VerifyAnswer(out) /\ InvalidOtp(out)
    /\ out.snap.prev # Unset /\ out.reqOtp = out.snap.prev
    /\ out.snap.otp # Unset /\ out.snap.otp # out.reqOtp
    /\ out.checkedAt <= out.snap.otpExpires

\* C7: a send-otp answered 500 because the mail was not sent leaves the
\* identity record in the store with the new code and expiry, and the OTP test
\* accepts that code at every time up to the expiry.
C7_NoRollbackOnMailFailure ==
    (out.op = "send-otp" /\ out.status = 500) =>
        /\ out.reqMail \in DOMAIN users
        /\ users[out.reqMail].otp = out.reqOtp
        /\ users[out.reqMail].otpExpires = now + OtpTtl
        /\ \A t \in OtpTimes :
              (now <= t /\ t <= users[out.reqMail].otpExpires)
                  => ~OtpRefused(users[out.reqMail], out.reqOtp, t)

\* A first contact whose mail failed: the identity was created all the same.
C7_Witness ==
    /\ out.op = "send-otp" /\ out.status = 500
    /\ out.snap.name = FirstName
    /\ out.reqMail \in DOMAIN users

\* A verify-otp response: a 200 carries a token bound to the id and mail of the
\* document the handler read, with that document's name and mail, and the
\* handler's otp matched that document's pending OTP at or before its expiry;
\* any other response carries no token.
C8_Response ==
    out.op = "verify-otp" =>
        IF out.status = 200
        THEN /\ out.snap.id # 0
             /\ Matched(out)
             /\ out.checkedAt <= out.snap.otpExpires
             /\ out.token.sig = "server"
             /\ out.token.userId = out.snap.id /\ out.token.mail = out.snap.mail
             /\ out.userId = out.snap.id
             /\ out.name = out.snap.name /\ out.mail = out.snap.mail
        ELSE out.token = NoToken

\* The save of a handler whose test passed leaves the identity without OTP and expiry.
C8_Clears ==
    \A p \in Procs :
        (pc[p] = "saving" /\ pc'[p] = "saved") =>
            /\ users'[user[p].mail].otp = Unset
            /\ users'[user[p].mail].otpExpires = NoDate

\* C8: a successful verify-otp clears the identity's OTP and expiry and returns
\* a credential for the identity that matched, with its name and mail; no
\* other verify-otp returns a credential.
C8_VerifiedCredential == [][ C8_Response' /\ C8_Clears ]_vars

\* A credential issued for a re-registered identity.
C8_Witness ==
    /\ out.op = "verify-otp" /\ out.status = 200
    /\ out.name = LaterName
    /\ out.token.userId = users[out.mail].id

----------------------------------------------------------------------------
(* The appliance ledger: values. *)

\* The two identities, registered and verified; users are never deleted.
MailOf == << "a@x.com", "b@x.com" >>

RegisteredUsers ==
    [ m \in ValidMails |->
        [ id |-> CHOOSE i \in 1 .. 2 : MailOf[i] = m, name |-> FirstName, mail |-> m,
          otp |-> Unset, otpExpires |-> NoDate,
          gen |-> CHOOSE i \in 1 .. 2 : MailOf[i] = m, code |-> GenerateOtp(0), prev |-> Unset ] ]

\* The token verify-otp signed for an identity at time 0.
TokenOf(mail) ==
    [ userId |-> RegisteredUsers[mail].id, mail |-> mail,
      iat |-> 0, exp |-> JwtTtl, sig |-> "server" ]

\* A token signed with another secret, and a string that is no JWT.
ForgedToken(mail) == [ TokenOf(mail) EXCEPT !.sig = "forged" ]
GarbageToken == [ NoToken EXCEPT !.sig = "garbage" ]

\* The Authorization headers a client sends: none, "Bearer " alone, a Bearer
\* token that is garbage, forged or genuine, and a genuine token under
\* another scheme.
Headers ==
    { NoHeader,
      [ scheme |-> "Bearer", token |-> NoToken ],
      [ scheme |-> "Bearer", token |-> GarbageToken ],
      [ scheme |-> "Bearer", token |-> ForgedToken("a@x.com") ],
      [ scheme |-> "Basic", token |-> TokenOf("a@x.com") ] }
    \cup { [ scheme |-> "Bearer", token |-> TokenOf(m) ] : m \in ValidMails }

\* The clock of the ledger, in milliseconds: around the tokens' issue and expiry.
LedgerTimes == { k * JwtTtl * 1000 + j : k \in 0 .. MaxEpochs, j \in 0 .. MaxJitter }

\* Numbers that are not integers are fractions n / d.
Fraction(n, d) == [ n |-> n, d |-> d ]

\* The request bodies of POST /api/appliances: a valid one and one without a name.
Fan ==
    [ applianceName |-> "Fan", rating |-> 50, hourlyUsage |-> 8, quantity |-> 2,
      dayFrequency |-> 7, unitRate |-> 8 ]

CreateBodies == { Fan, [ Fan EXCEPT !.applianceName = "" ] }

\* Fan without a unit rate.
FanNoRate == [ f \in DOMAIN Fan \ { "unitRate" } |-> Fan[f] ]

\* The request bodies of POST for the checks of the create handler alone: the
\* valid ones, and one for each constraint of the inputs that a body can break
\* with a number.
CreateInputs ==
    { Fan, FanNoRate,
      [ Fan EXCEPT !.applianceName = "" ],
      [ Fan EXCEPT !.rating = -50 ],
      [ Fan EXCEPT !.quantity = 0 ],
      [ Fan EXCEPT !.dayFrequency = 8 ],
      [ Fan EXCEPT !.unitRate = -8 ] }

\* The request bodies of PUT /api/appliances/:id: one input field, or the owner.
UpdateBodies == { [ rating |-> 100 ], [ userId |-> 2 ] }

\* The request bodies of PUT for the checks of the update handler alone: two
\* valid changes of different input fields, a quantity that is not positive,
\* an empty name, and a derived field supplied by the client.
UpdateInputs ==
    { [ rating |-> 100 ], [ quantity |-> 3 ], [ quantity |-> 0 ], [ applianceName |-> "" ],
      [ consumptionPerDay |-> Fraction(999, 1) ] }

\* The handlers that serve PUT and DELETE.
LedgerProcs == Procs \cap (1 .. MaxInFlight)

\* The ids a request may name: every id handed out in a behaviour.
ApplianceIds == 1 .. MaxAppliances

\* A req.params.id that is no ObjectId (such as "abc"), which no document can
\* have; mongoose cannot cast it, and findById rejects with a CastError.
MalformedId == MaxAppliances + 1

isObjectId(id) == id # MalformedId

\* The ids a PUT or DELETE request may name.
RequestIds == ApplianceIds \cup { MalformedId }

DerivedFields == { "consumptionPerDay", "consumptionPerWeek", "consumptionPerMonth", "monthlyCost" }

----------------------------------------------------------------------------
(* authMiddleware. *)

\* jwt.verify ignoring the token's exp.
jwtVerify_IgnoresExpiry(token, t) == token.sig = "server"

\* jwt.verify(token, JWT_SECRET) at time t returns the payload instead of
\* throwing: the token is a JWT signed with the secret and not expired.
jwtVerify(token, t) == token.sig = "server" /\ (t \div 1000) < token.exp

\* The 401 message authMiddleware answers with, "" when it calls next().
authMiddleware(header) ==
    IF variant = "server.js" THEN
        IF header.scheme # "Bearer" THEN "Unauthorized"
        ELSE IF jwtVerify(header.token, now) THEN ""
        ELSE "Invalid or expired token"
    ELSE
        IF header.token = NoToken THEN "Unauthorized"
        ELSE IF jwtVerify(header.token, now) THEN ""
        ELSE "Invalid token"

\* req.user: the payload of the verified token.
Payload(header) == [ userId |-> header.token.userId, mail |-> header.token.mail ]

\* A ledger response, with the request's header and the time of its authentication.
LedgerResponse(op, status, message, header, authAt) ==
    [ NoResponse EXCEPT !.op = op, !.status = status, !.message = message,
                        !.header = header, !.authAt = authAt ]

Unauthorized(op, header) == LedgerResponse(op, 401, authMiddleware(header), header, now)

----------------------------------------------------------------------------
(* POST /api/appliances. *)

\* The derived fields computed from the input fields m.
Derived(m) ==
    LET perDay == IF variant = "server.js"
                    THEN Fraction(m.rating * m.hourlyUsage * m.quantity, 1000)
                    ELSE Fraction(m.rating * m.hourlyUsage * m.quantity, 1)
        perWeek == Fraction(perDay.n * m.dayFrequency, perDay.d)
        perMonth == Fraction(perWeek.n * 433, perWeek.d * 100)
        cost == IF variant = "server.js"
                  THEN Fraction(perMonth.n * 12, perMonth.d * 100)
                  ELSE Fraction(perMonth.n * m.unitRate, perMonth.d)
    IN  [ consumptionPerDay |-> perDay, consumptionPerWeek |-> perWeek,
          consumptionPerMonth |-> perMonth, monthlyCost |-> cost ]

\* The route's validators pass: isLength({ min: 1 }) on the name, isInt({ min: 1 })
\* on quantity, isInt({ min: 0 }) on dayFrequency; isNumeric() on rating and
\* hourlyUsage passes for every number, negative ones included.  part_000 also
\* has body("unitRate").isNumeric(), which fails when the field is absent.
ValidCreate(body) ==
    /\ Len(body.applianceName) >= 1
    /\ body.quantity >= 1
    /\ body.dayFrequency >= 0
    /\ variant = "part_000" => "unitRate" \in DOMAIN body

\* new Appliance({ userId: req.user.userId, ...inputs, ...derived }): the schema
\* of server.js has no unitRate path, that of part_000 has one.
NewAppliance(id, userId, body) ==
    LET d == Derived(body)
        common ==
            [ id |-> id, userId |-> userId, applianceName |-> body.applianceName,
              rating |-> body.rating, hourlyUsage |-> body.hourlyUsage,
              quantity |-> body.quantity, dayFrequency |-> body.dayFrequency,
              consumptionPerDay |-> d.consumptionPerDay,
              consumptionPerWeek |-> d.consumptionPerWeek,
              consumptionPerMonth |-> d.consumptionPerMonth,
              monthlyCost |-> d.monthlyCost, createdAt |-> now ]
    IN  IF variant = "server.js" THEN common ELSE common @@ [ unitRate |-> body.unitRate ]

CreateAppliance(header, body) ==
    /\ applianceSeq < MaxAppliances
    /\ IF authMiddleware(header) # "" THEN
           /\ out' = [ Unauthorized("create", header) EXCEPT !.reqBody = body ]
           /\ UNCHANGED << appliances, applianceSeq >>
       ELSE IF ~ValidCreate(body) THEN
           /\ out' = [ LedgerResponse("create", 400, "Invalid value", header, now)
                         EXCEPT !.actor = Payload(header), !.reqBody = body ]
           /\ UNCHANGED << appliances, applianceSeq >>
       ELSE
           LET doc == NewAppliance(applianceSeq + 1, Payload(header).userId, body) IN
           /\ appliances' = [ a \in DOMAIN appliances \cup { doc.id } |->
                                IF a = doc.id THEN doc ELSE appliances[a] ]
           /\ applianceSeq' = applianceSeq + 1
           /\ out' = [ LedgerResponse("create", 201, "", header, now)
                         EXCEPT !.actor = Payload(header), !.records = << doc >>,
                                !.reqBody = body ]
    /\ UNCHANGED << variant, now, issuerVars, pc, req, appliance >>

CreateArrives == \E header \in Headers, body \in CreateBodies : CreateAppliance(header, body)

----------------------------------------------------------------------------
(* GET /api/appliances. *)

\* find without its filter.
find_All(userId) == { appliances[a] : a \in DOMAIN appliances }

\* Appliance.find({ userId }).
find(userId) == { appliances[a] : a \in { x \in DOMAIN appliances : appliances[x].userId = userId } }

\* .sort({ createdAt: -1 }): the orders of docs the sort may return; documents
\* with equal createdAt come in either order.
sort(docs) ==
    { rs \in [ 1 .. Cardinality(docs) -> docs ] :
        /\ \A i, j \in DOMAIN rs : i < j => rs[i] # rs[j]
        /\ \A i, j \in DOMAIN rs : i < j => rs[i].createdAt >= rs[j].createdAt }

ListAppliances(header) ==
    /\ IF authMiddleware(header) # "" THEN
           out' = Unauthorized("list", header)
       ELSE
           \E rs \in sort(find(Payload(header).userId)) :
               out' = [ LedgerResponse("list", 200, "", header, now)
                          EXCEPT !.actor = Payload(header), !.records = rs ]
    /\ UNCHANGED << variant, now, issuerVars, ledgerVars, pc, req >>

ListArrives == \E header \in Headers : ListAppliances(header)

----------------------------------------------------------------------------
(* PUT /api/appliances/:id. *)

\* Appliance.findById(id).
findById(id) == IF id \in DOMAIN appliances THEN appliances[id] ELSE NullAppliance

\* Object.assign(appliance, updates, { ...derived }) on the document doc: the
\* derived fields come from { ...doc, ...updates }; a key of updates that is a
\* path of the schema is set, any other key is dropped.
Assigned(doc, updates) ==
    LET merged == [ f \in DOMAIN doc \cup DOMAIN updates |->
                      IF f \in DOMAIN updates THEN updates[f] ELSE doc[f] ]
        d == Derived(merged)
    IN  [ f \in DOMAIN doc |->
            IF f \in DerivedFields THEN d[f]
            ELSE IF f \in DOMAIN updates THEN updates[f]
            ELSE doc[f] ]

\* The request arrives: authMiddleware, `await Appliance.findById` (whose
\* rejection the catch answers with 500), the 404 and the 403, then the
\* assignment; save() is awaited next.
UpdateFind(p, header, id, body) ==
    /\ pc[p] = "idle"
    /\ \A q \in Procs : q < p => pc[q] # "idle"
    /\ IF authMiddleware(header) # "" THEN
           /\ out' = [ Unauthorized("update", header) EXCEPT !.reqId = id, !.reqBody = body ]
           /\ UNCHANGED << pc, req, appliance >>
       ELSE IF ~isObjectId(id) THEN
           /\ out' = [ LedgerResponse("update", 500, "Internal server error", header, now)
                         EXCEPT !.actor = Payload(header), !.reqId = id, !.reqBody = body ]
           /\ UNCHANGED << pc, req, appliance >>
       ELSE IF findById(id).id = 0 THEN
           /\ out' = [ LedgerResponse("update", 404, "Appliance not found", header, now)
                         EXCEPT !.actor = Payload(header), !.reqId = id, !.reqBody = body ]
           /\ UNCHANGED << pc, req, appliance >>
       ELSE IF findById(id).userId # Payload(header).userId THEN
           /\ out' = [ LedgerResponse("update", 403, "Forbidden", header, now)
                         EXCEPT !.actor = Payload(header), !.reqId = id, !.reqBody = body ]
           /\ UNCHANGED << pc, req, appliance >>
       ELSE
           /\ pc' = [ pc EXCEPT ![p] = "updating" ]
           /\ req' = [ req EXCEPT ![p] = [ header |-> header, authAt |-> now, id |-> id, body |-> body ] ]
           /\ appliance' = [ appliance EXCEPT ![p] = findById(id) ]
           /\ out' = NoResponse
    /\ UNCHANGED << variant, now, issuerVars, appliances, applianceSeq >>

\* save() validates the document against applianceSchema before it writes: a
\* required String path that holds "" fails (required Number paths accept any
\* number), and save() rejects.
SaveRejects(doc) == doc.applianceName = ""

\* `await appliance.save()` reaches the store and the response follows: the
\* paths the handler changed are set on the stored document; a document that
\* fails the schema's validation, or was deleted meanwhile, makes save()
\* throw, which the handler answers with 500.
UpdateSave(p) ==
    /\ pc[p] = "updating"
    /\ LET id == req[p].id
           new == Assigned(appliance[p], req[p].body)
       IN  IF SaveRejects(new) \/ id \notin DOMAIN appliances THEN
               /\ out' = [ LedgerResponse("update", 500, "Internal server error", req[p].header, req[p].authAt)
                             EXCEPT !.actor = Payload(req[p].header), !.reqId = id,
                                    !.reqBody = req[p].body ]
               /\ UNCHANGED appliances
           ELSE
               /\ appliances' =
                      [ appliances EXCEPT ![id] =
                          [ f \in DOMAIN @ |-> IF new[f] # appliance[p][f] THEN new[f] ELSE @[f] ] ]
               /\ out' = [ LedgerResponse("update", 200, "", req[p].header, req[p].authAt)
                             EXCEPT !.actor = Payload(req[p].header), !.records = << new >>,
                                    !.reqId = id, !.reqBody = req[p].body ]
    /\ pc' = [ pc EXCEPT ![p] = "idle" ]
    /\ req' = [ req EXCEPT ![p] = NoRequest ]
    /\ appliance' = [ appliance EXCEPT ![p] = NullAppliance ]
    /\ UNCHANGED << variant, now, issuerVars, applianceSeq >>

UpdateArrives ==
    \E p \in LedgerProcs, header \in Headers, id \in RequestIds, body \in UpdateBodies :
        UpdateFind(p, header, id, body)

----------------------------------------------------------------------------
(* DELETE /api/appliances/:id. *)

\* The request arrives: authMiddleware, `await Appliance.findById` (whose
\* rejection the catch answers with 500), the 404 and the 403;
\* findByIdAndDelete is awaited next.
DeleteFind(p, header, id) ==
    /\ pc[p] = "idle"
    /\ \A q \in Procs : q < p => pc[q] # "idle"
    /\ IF authMiddleware(header) # "" THEN
           /\ out' = [ Unauthorized("delete", header) EXCEPT !.reqId = id ]
           /\ UNCHANGED << pc, req, appliance >>
       ELSE IF ~isObjectId(id) THEN
           /\ out' = [ LedgerResponse("delete", 500, "Internal server error", header, now)
                         EXCEPT !.actor = Payload(header), !.reqId = id ]
           /\ UNCHANGED << pc, req, appliance >>
       ELSE IF findById(id).id = 0 THEN
           /\ out' = [ LedgerResponse("delete", 404, "Appliance not found", header, now)
                         EXCEPT !.actor = Payload(header), !.reqId = id ]
           /\ UNCHANGED << pc, req, appliance >>
       ELSE IF findById(id).userId # Payload(header).userId THEN
           /\ out' = [ LedgerResponse("delete", 403, "Forbidden", header, now)
                         EXCEPT !.actor = Payload(header), !.reqId = id ]
           /\ UNCHANGED << pc, req, appliance >>
       ELSE
           /\ pc' = [ pc EXCEPT ![p] = "deleting" ]
           /\ req' = [ req EXCEPT ![p] = [ header |-> header, authAt |-> now, id |-> id ] ]
           /\ appliance' = [ appliance EXCEPT ![p] = findById(id) ]
           /\ out' = NoResponse
    /\ UNCHANGED << variant, now, issuerVars, appliances, applianceSeq >>

\* The delete answered 200 with the document left in the collection.
DeleteRemove_KeepsDocument(p) ==
    /\ pc[p] = "deleting"
    /\ UNCHANGED appliances
    /\ out' = [ LedgerResponse("delete", 200, "Appliance deleted successfully", req[p].header, req[p].authAt)
                  EXCEPT !.actor = Payload(req[p].header), !.reqId = req[p].id ]
    /\ pc' = [ pc EXCEPT ![p] = "idle" ]
    /\ req' = [ req EXCEPT ![p] = NoRequest ]
    /\ appliance' = [ appliance EXCEPT ![p] = NullAppliance ]
    /\ UNCHANGED << variant, now, issuerVars, applianceSeq >>

\* `await Appliance.findByIdAndDelete(id)` reaches the store and the 200 follows.
DeleteRemove(p) ==
    /\ pc[p] = "deleting"
    /\ appliances' = [ a \in DOMAIN appliances \ { req[p].id } |-> appliances[a] ]
    /\ out' = [ LedgerResponse("delete", 200, "Appliance deleted successfully", req[p].header, req[p].authAt)
                  EXCEPT !.actor = Payload(req[p].header), !.reqId = req[p].id ]
    /\ pc' = [ pc EXCEPT ![p] = "idle" ]
    /\ req' = [ req EXCEPT ![p] = NoRequest ]
    /\ appliance' = [ appliance EXCEPT ![p] = NullAppliance ]
    /\ UNCHANGED << variant, now, issuerVars, applianceSeq >>

DeleteArrives ==
    \E p \in LedgerProcs, header \in Headers, id \in RequestIds : DeleteFind(p, header, id)

LedgerStep == \E p \in Procs : UpdateSave(p) \/ DeleteRemove(p)

----------------------------------------------------------------------------
(* The ledger, for either server file, once both identities have logged in. *)

InitLedger ==
    /\ variant \in Variants
    /\ now = 0
    /\ users = RegisteredUsers
    /\ otpSeq = 2
    /\ credited = << 1, 1 >>
    /\ issued = { TokenOf(m) : m \in ValidMails }
    /\ appliances = << >>
    /\ applianceSeq = 0
    /\ pc = [ p \in Procs |-> "idle" ]
    /\ req = [ p \in Procs |-> NoRequest ]
    /\ user = [ p \in Procs |-> NullUser ]
    /\ checkedAt = [ p \in Procs |-> NoDate ]
    /\ appliance = [ p \in Procs |-> NullAppliance ]
    /\ out = NoResponse

NextLedger ==
    \/ Tick(LedgerTimes)
    \/ CreateArrives
    \/ ListArrives
    \/ UpdateArrives
    \/ DeleteArrives
    \/ LedgerStep

SpecLedger == InitLedger /\ [][NextLedger]_vars

----------------------------------------------------------------------------
(* A session: the first mail logs in (and may log in again), and the tokens *)
(* that verify-otp handed out are presented to GET /api/appliances around   *)
(* their issue and around seven days later.                                 *)

SessionTimes ==
    { t \in { k * JwtTtl * 1000 + j : k \in 0 .. MaxEpochs, j \in -1 .. MaxJitter } : t >= 0 }

RequestOtpFirst ==
    \E k \in 0 .. RandomGrid - 1, mailed \in BOOLEAN :
        \E name \in Names("a@x.com") : SendOtp("a@x.com", name, k, mailed)

VerifyOtpFirst == \E p \in Procs, otp \in GeneratedOtps : VerifyFind(p, "a@x.com", otp)

AuthenticateIssued ==
    \E token \in issued : ListAppliances([ scheme |-> "Bearer", token |-> token ])

NextSession ==
    \/ Tick(SessionTimes)
    \/ RequestOtpFirst
    \/ VerifyOtpFirst
    \/ VerifyOtpStep
    \/ AuthenticateIssued

SpecSession == InitMail /\ [][NextSession]_vars

----------------------------------------------------------------------------
(* The update handler, interleaved with itself and with delete: one document *)
(* of the first user is stored, both users hold genuine tokens.              *)

GenuineHeaders == { [ scheme |-> "Bearer", token |-> TokenOf(m) ] : m \in ValidMails }

InitUpdate ==
    /\ variant \in Variants
    /\ now = 0
    /\ users = RegisteredUsers
    /\ otpSeq = 2
    /\ credited = << 1, 1 >>
    /\ issued = { TokenOf(m) : m \in ValidMails }
    /\ appliances = [ a \in { 1 } |-> NewAppliance(1, 1, Fan) ]
    /\ applianceSeq = 1
    /\ pc = [ p \in Procs |-> "idle" ]
    /\ req = [ p \in Procs |-> NoRequest ]
    /\ user = [ p \in Procs |-> NullUser ]
    /\ checkedAt = [ p \in Procs |-> NoDate ]
    /\ appliance = [ p \in Procs |-> NullAppliance ]
    /\ out = NoResponse

UpdateAny ==
    \E p \in Procs, header \in GenuineHeaders, id \in RequestIds, body \in UpdateInputs :
        UpdateFind(p, header, id, body)

DeleteOwn == \E p \in Procs : DeleteFind(p, [ scheme |-> "Bearer", token |-> TokenOf("a@x.com") ], 1)

NextUpdate ==
    \/ UpdateAny
    \/ DeleteOwn
    \/ LedgerStep

SpecUpdate == InitUpdate /\ [][NextUpdate]_vars

----------------------------------------------------------------------------
(* Updates that change an input field or the owner, and deletes, of the one *)
(* stored document, with two handlers in flight.                            *)

UpdateStored ==
    \E p \in Procs, header \in GenuineHeaders, body \in UpdateBodies : UpdateFind(p, header, 1, body)

NextHandOver ==
    \/ UpdateStored
    \/ DeleteOwn
    \/ LedgerStep

SpecHandOver == InitUpdate /\ [][NextHandOver]_vars

----------------------------------------------------------------------------
(* The create handler over all its inputs. *)

CreateAny == \E header \in GenuineHeaders, body \in CreateInputs : CreateAppliance(header, body)

NextCreate == CreateAny

SpecCreate == InitLedger /\ [][NextCreate]_vars

----------------------------------------------------------------------------
(* Properties of the appliance ledger. *)

LedgerOps == { "create", "list", "update", "delete" }

\* The credential is missing, malformed, wrongly signed, or expired at time t.
BadCredential(token, t) ==
    \/ token = NoToken
    \/ token.sig # "server"
    \/ (t \div 1000) >= token.exp

C9_Response(r) ==
    r.op \in LedgerOps =>
        /\ BadCredential(r.header.token, r.authAt) => r.status = 401 /\ r.records = << >>
        /\ r.status = 401 => r.actor = NoPayload
        /\ r.status # 401 =>
              /\ ~BadCredential(r.header.token, r.authAt)
              /\ r.actor = [ userId |-> r.header.token.userId, mail |-> r.header.token.mail ]

C9_InFlight ==
    \A p \in Procs :
        pc[p] \in { "updating", "deleting" } => ~BadCredential(req[p].header.token, req[p].authAt)

\* C9: every ledger operation presented with a missing, malformed, expired or
\* wrongly signed credential is answered 401 with no records and leaves the
\* appliances and the users as they were; a response other than 401, and a
\* handler past authMiddleware, has a credential that is signed by the server
\* and unexpired when presented, and acts as the user that credential names.
C9_BadCredentialUnauthorized ==
    [][ /\ C9_Response(out')
        /\ C9_InFlight'
        /\ (out'.op \in LedgerOps /\ out'.status = 401) => UNCHANGED << appliances, users >> ]_vars

\* An update under an expired genuine token is refused while the store holds documents.
C9_Witness ==
    /\ out.op = "update"
    /\ out.status = 401
    /\ out.header = [ scheme |-> "Bearer", token |-> TokenOf("a@x.com") ]
    /\ appliances # << >>

\* C10: the records of a successful list are exactly the stored documents
\* whose userId is the acting user's, each once, in non-increasing order of
\* createdAt, and the acting user is the one the presented credential names.
C10_ListOwnNewestFirst ==
    (out.op = "list" /\ out.status = 200) =>
        LET rs == out.records IN
        /\ out.actor.userId = out.header.token.userId
        /\ \A i \in DOMAIN rs : rs[i].userId = out.actor.userId
        /\ { rs[i] : i \in DOMAIN rs } =
              { appliances[a] : a \in { x \in DOMAIN appliances :
                                          appliances[x].userId = out.actor.userId } }
        /\ \A i, j \in DOMAIN rs : i < j => rs[i] # rs[j] /\ rs[i].createdAt >= rs[j].createdAt

\* A list that returns one record while the store also holds another user's.
C10_Witness ==
    /\ out.op = "list"
    /\ out.status = 200
    /\ Len(out.records) = 1
    /\ \E a \in DOMAIN appliances : appliances[a].userId # out.actor.userId

\* A list that returns two records created at different times.
C10_WitnessOrdered ==
    /\ out.op = "list"
    /\ out.status = 200
    /\ Len(out.records) = 2
    /\ out.records[1].createdAt > out.records[2].createdAt

\* A response sent by the step that received the request (no store call awaited after the fetch).
AnsweredOnArrival(r) == r.op \in { "update", "delete" } /\ r.status # 401 /\ pc' = pc

\* C11: an update or delete under a valid credential is answered 404 exactly
\* when no stored document has the id and 403 exactly when the document
\* exists with a userId other than the acting user's; both leave the
\* collection as it was, and only a request for an existing document of the
\* acting user goes on to its write.
C11_NotFoundVersusForbidden ==
    [][ /\ AnsweredOnArrival(out') =>
              /\ out'.status \in { 404, 403 }
              /\ out'.status = 404 <=> out'.reqId \notin DOMAIN appliances
              /\ out'.status = 403 <=>
                    /\ out'.reqId \in DOMAIN appliances
                    /\ appliances[out'.reqId].userId # out'.actor.userId
              /\ out'.records = << >>
              /\ UNCHANGED appliances
        /\ \A p \in Procs :
              (pc[p] = "idle" /\ pc'[p] \in { "updating", "deleting" }) =>
                  /\ req'[p].id \in DOMAIN appliances
                  /\ appliances[req'[p].id].userId = req'[p].header.token.userId
                  /\ UNCHANGED appliances ]_vars

\* For an id that is an ObjectId the two outcomes are as claimed.
C11_ObjectIds ==
    [][ (AnsweredOnArrival(out') /\ isObjectId(out'.reqId)) =>
              /\ out'.status \in { 404, 403 }
              /\ out'.status = 404 <=> out'.reqId \notin DOMAIN appliances
              /\ UNCHANGED appliances ]_vars

\* C12: a stored document's userId never changes: no step gives a document
\* that stays in the collection another userId than it had (ids are not
\* reused, so the userId stays the one the document was created with).
C12_OwnerImmutable ==
    [][ \A a \in DOMAIN appliances \cap DOMAIN appliances' :
            appliances'[a].userId = appliances[a].userId ]_vars

\* The derived fields of a document are the formulas applied to its input fields.
DerivedConsistent(doc) == [ f \in DerivedFields |-> doc[f] ] = Derived(doc)

\* C13: in every reachable state the derived fields of every stored document
\* equal the formulas applied to the input fields stored with them.
C13_DerivedMatchInputs == \A a \in DOMAIN appliances : DerivedConsistent(appliances[a])

\* The greatest common divisor of two naturals, not both 0.
RECURSIVE GCD(_, _)
GCD(a, b) == IF b = 0 THEN a ELSE GCD(b, a % b)

\* The fraction x (of a natural over a positive natural) in lowest terms.
Lowest(x) == LET g == GCD(x.n, x.d) IN [ n |-> x.n \div g, d |-> x.d \div g ]

\* Fractions x and y are the same number.
SameNumber(x, y) == Lowest(x) = Lowest(y)

\* The product of a fraction and an integer.
Times(x, k) == [ n |-> x.n * k, d |-> x.d ]

\* The inputs of a body satisfy the constraints of the appliance record.
ValidInputs(b) ==
    /\ Len(b.applianceName) >= 1
    /\ b.rating >= 0
    /\ b.hourlyUsage >= 0
    /\ b.quantity >= 1
    /\ b.dayFrequency \in 0 .. 7
    /\ "unitRate" \in DOMAIN b => b.unitRate >= 0

\* A 201 of POST /api/appliances.
Created(r) == r.op = "create" /\ r.status = 201

\* C14: for valid inputs with a unit rate, the record CreateAppliance returns is
\* the one it stored, with consumptionPerDay = rating * hourlyUsage * quantity,
\* consumptionPerWeek = consumptionPerDay * dayFrequency, consumptionPerMonth =
\* consumptionPerWeek * 4.33 and monthlyCost = consumptionPerMonth * unitRate.
C14_CreateFormulas ==
    (Created(out) /\ ValidInputs(out.reqBody) /\ "unitRate" \in DOMAIN out.reqBody) =>
        LET b == out.reqBody
            doc == out.records[1]
        IN  /\ appliances[doc.id] = doc
            /\ SameNumber(doc.consumptionPerDay, Fraction(b.rating * b.hourlyUsage * b.quantity, 1))
            /\ SameNumber(doc.consumptionPerWeek, Times(doc.consumptionPerDay, b.dayFrequency))
            /\ SameNumber(doc.consumptionPerMonth,
                          [ n |-> doc.consumptionPerWeek.n * 433, d |-> doc.consumptionPerWeek.d * 100 ])
            /\ SameNumber(doc.monthlyCost, Times(doc.consumptionPerMonth, b.unitRate))

\* The rate a request without unitRate is costed with.
DefaultRate == Fraction(12, 100)

\* C15: a create whose inputs are valid is accepted with or without a unit
\* rate; without one monthlyCost is consumptionPerMonth times the default
\* rate, with one it is consumptionPerMonth times that unit rate.
C15_UnitRateOptional ==
    (out.op = "create" /\ out.status # 401 /\ ValidInputs(out.reqBody)) =>
        /\ out.status = 201
        /\ LET b == out.reqBody
               doc == out.records[1]
           IN  IF "unitRate" \in DOMAIN b
                 THEN SameNumber(doc.monthlyCost, Times(doc.consumptionPerMonth, b.unitRate))
                 ELSE SameNumber(doc.monthlyCost,
                                 [ n |-> doc.consumptionPerMonth.n * DefaultRate.n,
                                   d |-> doc.consumptionPerMonth.d * DefaultRate.d ])

\* C16: a create is answered 201 and stores a document only when its inputs
\* satisfy the constraints; otherwise it is answered 400 and stores nothing.
C16_CreateValidates ==
    [][ (out'.op = "create" /\ out'.status # 401) =>
            IF ValidInputs(out'.reqBody)
              THEN out'.status # 400
              ELSE out'.status = 400 /\ UNCHANGED appliances ]_vars

\* A body of PUT supplies a field that violates the constraints of the inputs.
InvalidUpdate(b) ==
    ~ValidInputs([ f \in DOMAIN Fan |-> IF f \in DOMAIN b THEN b[f] ELSE Fan[f] ])

\* C17: an update of a document by its owner that supplies a field violating
\* the constraints is answered 400 and leaves the collection as it was, and every stored
\* document satisfies the constraints of the inputs.
C17_UpdateValidates ==
    [][ /\ (/\ out'.op = "update"
            /\ isObjectId(out'.reqId)
            /\ out'.status \notin { 401, 403, 404 }
            /\ InvalidUpdate(out'.reqBody)) =>
              out'.status = 400 /\ UNCHANGED appliances
        /\ \A a \in DOMAIN appliances' : ValidInputs(appliances'[a]) ]_vars

\* The ids of the documents that were created and are no longer stored.
Deleted == { a \in 1 .. applianceSeq : a \notin DOMAIN appliances }

\* C18: a delete answered 200 has removed the document; a removed document
\* never returns to the collection, no later list contains it, and a later
\* update or delete of its id under a valid credential is answered 404 and
\* goes no further.
C18_DeletedStaysDeleted ==
    [][ /\ (out'.op = "delete" /\ out'.status = 200) => out'.reqId \in Deleted'
        /\ Deleted \subseteq Deleted'
        /\ (out'.op = "list" /\ out'.status = 200) =>
              \A i \in DOMAIN out'.records : out'.records[i].id \notin Deleted'
        /\ (AnsweredOnArrival(out') /\ out'.reqId \in Deleted) => out'.status = 404
        /\ \A p \in Procs :
              (pc[p] = "idle" /\ pc'[p] \in { "updating", "deleting" }) => req'[p].id \notin Deleted ]_vars

\* A second delete of a deleted document is answered 404.
C18_Witness ==
    /\ out.op = "delete"
    /\ out.status = 404
    /\ out.reqId \in Deleted

\* A list by a user after one of that user's two documents was deleted.
C18_WitnessList ==
    /\ out.op = "list"
    /\ out.status = 200
    /\ Len(out.records) = 1
    /\ Deleted # {}

\* C19: a verify-otp for an email without an identity record is answered with
\* the status and message that a registered email with a wrong or expired code
\* is answered with (400 "Invalid or expired OTP", InvalidOtp above), so that
\* the two runs cannot be told apart by their responses.
C19_UnknownEmailLooksInvalid ==
    (/\ out.op = "verify-otp"
     /\ isEmail(out.reqMail)
     /\ Len(out.reqOtp) >= 3
     /\ out.snap = NullUser) => InvalidOtp(out)

\* C20: an update with an invalid payload under a valid credential is answered
\* 404 when no document has its id and 403 when the document is another
\* user's, never with a validation error.
C20_ChecksBeforeValidation ==
    [][ (AnsweredOnArrival(out') /\ out'.op = "update" /\ InvalidUpdate(out'.reqBody)) =>
            /\ out'.reqId \notin DOMAIN appliances => out'.status = 404
            /\ (/\ out'.reqId \in DOMAIN appliances
                /\ appliances[out'.reqId].userId # out'.actor.userId) => out'.status = 403
            /\ out'.status # 400 ]_vars

\* For an id that is an ObjectId the order of the checks is as claimed.
C20_ObjectIds ==
    [][ (/\ AnsweredOnArrival(out') /\ out'.op = "update" /\ InvalidUpdate(out'.reqBody)
         /\ isObjectId(out'.reqId)) =>
            /\ out'.reqId \notin DOMAIN appliances => out'.status = 404
            /\ out'.reqId \in DOMAIN appliances => out'.status = 403
            /\ UNCHANGED appliances ]_vars

----------------------------------------------------------------------------
(* Further properties of the issuer. *)

\* Two mails that differ at most in letter case.
SameIdentity(m1, m2) == toLowerCase(m1) = toLowerCase(m2)

\* C21: identity records are keyed by the lower-cased email: no two records
\* have mails that differ only in letter case, every record's mail is in lower
\* case, and the findOne of a verify-otp returns the record whose mail is the
\* request's mail in any letter case, when there is one.
C21_CaseNormalizedKey ==
    [][ /\ \A m1, m2 \in DOMAIN users' : SameIdentity(m1, m2) => m1 = m2
        /\ \A m \in DOMAIN users' : users'[m].mail = toLowerCase(m)
        /\ \A p \in Procs :
              (pc[p] = "idle" /\ pc'[p] = "found") =>
                  \A m \in DOMAIN users :
                      SameIdentity(m, req'[p].mail) => user'[p] = users[m] ]_vars

\* A string of exactly four decimal digits.
FourDigits(otp) == Len(otp) = 4 /\ \A i \in 1 .. Len(otp) : otp[i] \in 0 .. 9

\* C22: right after the upsert of a send-otp (whether or not the mail was then
\* sent) the identity's pending OTP is a string of exactly 4 digits, the one
\* handed to the mailer, and its expiry is the time of the request plus 10
\* minutes.
C22_FourDigitsTenMinutes ==
    (out.op = "send-otp" /\ out.status \in { 200, 500 }) =>
        LET doc == users[out.snap.mail] IN
        /\ FourDigits(doc.otp)
        /\ doc.otp = out.reqOtp
        /\ doc.otpExpires = now + OtpTtl
        /\ doc.otpExpires - now = 10 * 60 * 1000

\* A second OTP stored for an identity at a later time than the first.
C22_Witness ==
    /\ out.op = "send-otp" /\ out.status = 200
    /\ now > 0
    /\ out.snap.prev # Unset
    /\ users[out.snap.mail].otp = GenerateOtp(RandomGrid - 1)

\* A list request that presented a token verify-otp had handed out.
Presented(r) == r.op = "list" /\ r.header.scheme = "Bearer" /\ r.header.token \in issued

\* C23 as stated: a token issued by verify-otp is accepted at every time up to
\* 7 days after its issue and refused with 401 at every later time.  The token
\* was issued in second iat, so not before iat * 1000 milliseconds.
C23_Original ==
    Presented(out) =>
        IF out.authAt <= (out.header.token.iat + JwtTtl) * 1000
          THEN out.status = 200
          ELSE out.status = 401

\* C23 as amended: a token issued by verify-otp in second s is accepted at
\* every time before second s + 7 days and refused with 401 from that second
\* on, whatever send-otp and verify-otp requests were served in between.
C23_SessionWindow ==
    Presented(out) =>
        IF out.authAt \div 1000 < out.header.token.iat + JwtTtl
          THEN out.status = 200 /\ out.actor.mail = out.header.token.mail
          ELSE out.status = 401 /\ out.actor = NoPayload

\* A token accepted a millisecond before its window ends, after a later
\* send-otp has given its identity a new pending OTP.
C23_Witness ==
    /\ Presented(out) /\ out.status = 200
    /\ out.authAt = JwtTtl * 1000 - 1
    /\ users[out.header.token.mail].otp # Unset
    /\ users[out.header.token.mail].gen > 1

\* A token refused as its window ends, while a later token of the same identity is valid.
C23_WitnessRefused ==
    /\ Presented(out) /\ out.status = 401
    /\ out.authAt = JwtTtl * 1000
    /\ Cardinality(issued) = 2

\* C24: a verify-otp that is answered anything but 200 leaves every identity
\* record as it was; the records change only by a send-otp or by the save of
\* a handler whose OTP test passed; and a verify-otp whose code is the pending
\* one, checked at or before the expiry, is answered 200 whatever was refused
\* before it.
C24_FailureLeavesRecords ==
    [][ /\ (out'.op = "verify-otp" /\ out'.status # 200) => users' = users
        /\ users' # users =>
              \/ out'.op = "send-otp"
              \/ \E p \in Procs : pc[p] = "saving" /\ pc'[p] = "saved"
        /\ (VerifyAnswer(out') /\ Matched(out') /\ out'.checkedAt <= out'.snap.otpExpires) =>
              out'.status = 200 ]_vars

\* A wrong guess refused while the OTP it missed is still pending, unchanged.
C24_Witness ==
    /\ VerifyAnswer(out) /\ InvalidOtp(out)
    /\ out.snap.otp # Unset /\ out.reqOtp # out.snap.otp
    /\ users[out.snap.mail].otp = out.snap.otp
    /\ users[out.snap.mail].otpExpires = out.snap.otpExpires

\* The correct code refused after the expiry, and the expired OTP still stored.
C24_WitnessExpired ==
    /\ VerifyAnswer(out) /\ InvalidOtp(out)
    /\ Matched(out) /\ out.checkedAt > out.snap.otpExpires
    /\ users[out.snap.mail].otp = out.snap.otp

\* C25: there is at most one identity record per email (in any letter case),
\* a record keeps its id and no two records share one, and a token issued by
\* a login carries the userId that every earlier token for the same email
\* carries, which is the userId of the appliances created under those.
C25_OneIdentityStableId ==
    [][ /\ \A m1, m2 \in DOMAIN users' : SameIdentity(m1, m2) => m1 = m2
        /\ \A m \in DOMAIN users : m \in DOMAIN users' /\ users'[m].id = users[m].id
        /\ \A m1, m2 \in DOMAIN users' : users'[m1].id = users'[m2].id => m1 = m2
        /\ (out'.op = "verify-otp" /\ out'.status = 200) =>
              \A t \in issued : SameIdentity(t.mail, out'.reqMail) => t.userId = out'.token.userId ]_vars

\* For emails written in one letter case throughout, the ids are as claimed.
C25_SameCase ==
    [][ /\ \A m \in DOMAIN users : m \in DOMAIN users' /\ users'[m].id = users[m].id
        /\ \A m1, m2 \in DOMAIN users' : users'[m1].id = users'[m2].id => m1 = m2
        /\ (out'.op = "verify-otp" /\ out'.status = 200) =>
              \A t \in issued : t.mail = out'.reqMail => t.userId = out'.token.userId ]_vars

\* C26: a pending OTP leaves the store only by a send-otp that overwrites it
\* or by the save of a verify-otp that read that very issuance (its expiry
\* removes nothing); and a verify-otp answers 200 only while the issuance it
\* read is still the identity's last one.
C26_StaleClearSparesNewOtp ==
    [][ /\ \A m \in DOMAIN users :
              (users[m].otp # Unset /\ users'[m] # users[m]) =>
                  \/ out'.op = "send-otp" /\ out'.snap.mail = m
                  \/ \E p \in Procs :
                        /\ pc[p] = "saving" /\ pc'[p] = "saved"
                        /\ user[p].mail = m /\ user[p].gen = users[m].gen
        /\ (out'.op = "verify-otp" /\ out'.status = 200) =>
              out'.snap.gen = users[out'.snap.mail].gen ]_vars

----------------------------------------------------------------------------
(* Further properties of the appliance ledger. *)

\* C27: when the save of an update leaves no update in flight, the derived
\* fields of every stored document with valid inputs equal the formulas
\* applied to the input fields stored with them, also when that update and
\* another one had both read the document before either wrote.
C27_InterleavedUpdatesConsistent ==
    [][ \A p \in Procs :
            (pc[p] = "updating" /\ pc'[p] = "idle" /\ AllIdle') =>
                \A a \in DOMAIN appliances' :
                    ValidInputs(appliances'[a]) => DerivedConsistent(appliances'[a]) ]_vars

\* The step adds, removes or changes the document with id a.
Changed(a) ==
    IF a \in DOMAIN appliances /\ a \in DOMAIN appliances'
      THEN appliances'[a] # appliances[a]
      ELSE TRUE

\* C28: a step of an appliance operation leaves the identity records as they
\* were; every document it changes or removes was the acting user's before
\* the step and every document it adds is the acting user's, so that no
\* document of another user is touched; a step of send-otp or verify-otp
\* leaves the appliance documents as they were.
C28_OthersUntouched ==
    [][ /\ out'.op \in LedgerOps => users' = users
        /\ out'.op \in { "send-otp", "verify-otp" } => appliances' = appliances
        /\ appliances' # appliances =>
              /\ out'.op \in { "create", "update", "delete" }
              /\ \A a \in DOMAIN appliances \cup DOMAIN appliances' :
                    Changed(a) =>
                        IF a \in DOMAIN appliances
                          THEN appliances[a].userId = out'.actor.userId
                          ELSE appliances'[a].userId = out'.actor.userId ]_vars

\* The documents of every user but the acting one are the same set after a
\* step of an appliance operation as before it.
C28_OthersKeepTheirSet ==
    [][ out'.op \in LedgerOps =>
            \A u \in { users[m].id : m \in DOMAIN users } \ { out'.actor.userId } :
                { appliances'[a] : a \in { x \in DOMAIN appliances' : appliances'[x].userId = u } }
                  = find(u) ]_vars

====
